---------------------------- MODULE Spec2Model ----------------------------
(***************************************************************************)
(* Interactive remote-shell relay of rsts:                                 *)
(*   - Ssh2PtyClient (modules/ssh/ssh2_pty_client.rs): the pty bridge, its *)
(*     command queue, its output queue and its dedicated I/O loop worker;  *)
(*   - WsSshPtySession (modules/web/ssh_websocket_pty.rs): the session     *)
(*     actor, its heartbeat, its control-message parser and the tasks it   *)
(*     spawns.                                                             *)
(* Bridges are numbered 1..MaxAttempts: bridge a is the Ssh2PtyClient that *)
(* connect attempt a of the session creates.                               *)
(***************************************************************************)
EXTENDS Integers, Sequences, FiniteSets, TLC

\* ------------------------------------------------------------------ bounds
MaxAttempts == 2
MaxApiCalls == 3
MaxPayload == 2
MaxOut == 2
MaxFrames == 2
MaxParseFrames == 2
MaxTextLen == 3
MaxOrderFrames == 3
\* connections the SshService is asked to create
MaxConns == 3

Bridges == 1..MaxAttempts

\* ------------------------------------------------------- program constants
DEFAULT_COLS == 80
DEFAULT_ROWS == 24
HEARTBEAT_INTERVAL == 5
CLIENT_TIMEOUT == 10

\* Option<u32>::None
NoneU32 == -1

VARIABLES
    \* Ssh2PtyClient fields, per bridge
    client,         \* [session, blocking, channel, command_tx, dropped]
    \* std::sync::mpsc command queue of the bridge (PtyCommand values)
    cmdq,
    \* tokio unbounded output queue of the bridge (Vec<u8> chunks)
    outq,
    \* the output queue's receiver (rx) is still alive
    rxOpen,
    \* I/O loop worker: position and its private pending_write
    iopc,
    pending_write,
    \* operations performed on the libssh2 session/channel, in order
    chanLog,
    \* concatenation of the Write payloads in dequeue order
    dequeued,
    \* chunks the channel read has returned, in order
    produced,
    \* why the I/O loop ended
    exitCause,
    \* every command the command queue has accepted, in order
    enqueued,
    \* number of close() calls made on the bridge
    closeCalls,
    \* caller of the bridge API: last call with its result, calls left
    lastCall,
    apiBudget,
    \* WsSshPtySession fields: seconds from hb to the latest heartbeat tick,
    \* the bound transport (0: None, else the bridge), the connected flag
    hb,
    ssh_client,
    connected,
    \* the actor's run state, and what stopped it
    actor,
    stopCause,
    \* the actor's mailbox (SetSshClient and SendWsMessage) and the frames it
    \* has emitted to the client with ctx.text
    mailbox,
    wsOut,
    \* the task handle_connect spawned for each connect attempt
    attempt,
    \* the tasks spawned for write_to_pty, resize_pty and close, not yet run
    spawned,
    \* the client: the frame it has sent that the actor has not handled yet,
    \* and the number of frames it may still send
    inflight,
    budget,
    \* a RusshClient shared as AnyPtyClient::Russh: its fields, the two
    \* mutexes around it and its channel, its I/O task and the calls on it
    russh,
    \* the SshService: its list of clients, and for every connection it has
    \* created the id it returned for it
    service

bridgeVars == <<client, cmdq, outq, rxOpen, iopc, pending_write, chanLog,
                dequeued, produced, exitCause, enqueued, closeCalls>>
apiVars == <<lastCall, apiBudget>>
sideVars == <<russh, service>>
sessVars == <<hb, ssh_client, connected, actor, stopCause, mailbox, wsOut,
              attempt, spawned, inflight, budget>>
vars == <<client, cmdq, outq, rxOpen, iopc, pending_write, chanLog,
          dequeued, produced, exitCause, enqueued, closeCalls, lastCall,
          apiBudget, hb, ssh_client, connected, actor, stopCause, mailbox,
          wsOut, attempt, spawned, inflight, budget, russh, service>>

\* ----------------------------------------------------------------- helpers
RECURSIVE Flatten(_)
Flatten(ss) == IF ss = <<>> THEN <<>> ELSE Head(ss) \o Flatten(Tail(ss))

IsPrefix(s, t) == Len(s) <= Len(t) /\ SubSeq(t, 1, Len(s)) = s

RECURSIVE SelectCmds(_, _)
SelectCmds(q, cmd) ==
    IF q = <<>> THEN <<>>
    ELSE IF Head(q).cmd = cmd
         THEN <<Head(q)>> \o SelectCmds(Tail(q), cmd)
         ELSE SelectCmds(Tail(q), cmd)

RECURSIVE SelectOps(_, _)
SelectOps(log, op) ==
    IF log = <<>> THEN <<>>
    ELSE IF Head(log).op = op
         THEN <<Head(log)>> \o SelectOps(Tail(log), op)
         ELSE SelectOps(Tail(log), op)

\* PtyCommand
CmdWrite(data) == [cmd |-> "Write", data |-> data, width |-> 0, height |-> 0]
CmdResize(w, h) == [cmd |-> "Resize", data |-> <<>>, width |-> w, height |-> h]
CmdClose == [cmd |-> "Close", data |-> <<>>, width |-> 0, height |-> 0]

\* One operation on the libssh2 session or channel, and the thread doing it.
Op(op, a, b, by) == [op |-> op, a |-> a, b |-> b, by |-> by]

\* pending_write: Option<(Vec<u8>, usize)>. Two observations ride along:
\* blocked, the latest channel.write of this buffer returned would-block, and
\* mark, the number of commands enqueued so far when the buffer was first
\* left partially flushed (0: it has not been).
NoPending == [some |-> FALSE, data |-> <<>>, offset |-> 0,
              blocked |-> FALSE, mark |-> 0]
SomePending(data, offset) == [some |-> TRUE, data |-> data, offset |-> offset,
                              blocked |-> FALSE, mark |-> 0]

\* Bytes of the channel log written by the worker: what the remote side sees.
Wire(b) == [i \in 1..Len(SelectOps(chanLog[b], "write")) |->
               SelectOps(chanLog[b], "write")[i].a]

\* mpsc: a Sender of the command queue is alive / its Receiver is alive.
SendersAlive(b) == client[b].command_tx /\ ~client[b].dropped
ReceiverAlive(b) == iopc[b] \in {"drain", "write", "read"}

NewClient == [session |-> FALSE, blocking |-> TRUE, channel |-> FALSE,
              command_tx |-> FALSE, dropped |-> FALSE]

\* ------------------------------------------------ Ssh2PtyClient (the bridge)
\* Each method constrains exactly <<client, cmdq, enqueued, iopc, chanLog,
\* closeCalls>>, the state a method call can touch; `ok` is the outcome of the
\* network calls it makes.

\* connect(): TCP connect, handshake, password auth; session stored on success.
connect(b, ok) ==
    /\ client' = IF ok
                 THEN [client EXCEPT ![b].session = TRUE, ![b].blocking = TRUE]
                 ELSE client
    /\ chanLog' = IF ok
                  THEN [chanLog EXCEPT ![b] = Append(@, Op("handshake", 0, 0, "caller"))]
                  ELSE chanLog
    /\ UNCHANGED <<cmdq, enqueued, iopc, closeCalls>>

connectResult(b, ok) == IF ok THEN "Ok" ELSE "Err"

\* create_pty_session(width, height): needs a session; opens the channel with
\* a pty of width.unwrap_or(80) x height.unwrap_or(24) and a shell.
create_pty_session(b, ok, width, height) ==
    LET cols == IF width = NoneU32 THEN DEFAULT_COLS ELSE width
        rows == IF height = NoneU32 THEN DEFAULT_ROWS ELSE height
    IN  IF client[b].session /\ ok
        THEN /\ client' = [client EXCEPT ![b].channel = TRUE]
             /\ chanLog' = [chanLog EXCEPT
                              ![b] = Append(@, Op("request_pty", cols, rows, "caller"))]
             /\ UNCHANGED <<cmdq, enqueued, iopc, closeCalls>>
        ELSE UNCHANGED <<client, cmdq, enqueued, iopc, chanLog, closeCalls>>

create_pty_sessionResult(b, ok) ==
    IF ~client[b].session THEN "no session"
    ELSE IF ok THEN "Ok" ELSE "Err"

\* start_pty_io(tx): session to non-blocking, take the channel, create the
\* command queue, keep its sender, spawn the I/O loop worker.
start_pty_io(b) ==
    IF client[b].channel
    THEN /\ client' = [client EXCEPT ![b].blocking = FALSE,
                                      ![b].channel = FALSE,
                                      ![b].command_tx = TRUE]
         /\ cmdq' = [cmdq EXCEPT ![b] = <<>>]
         /\ iopc' = [iopc EXCEPT ![b] = "drain"]
         /\ UNCHANGED <<chanLog, enqueued, closeCalls>>
    ELSE /\ client' = IF client[b].session
                      THEN [client EXCEPT ![b].blocking = FALSE]
                      ELSE client
         /\ UNCHANGED <<cmdq, enqueued, iopc, chanLog, closeCalls>>

start_pty_ioResult(b) == IF client[b].channel THEN "Ok" ELSE "no channel"

\* SendCmd putting the command at the head of the queue.
SendCmd_Front(b, c) ==
    IF ReceiverAlive(b)
    THEN /\ cmdq' = [cmdq EXCEPT ![b] = <<c>> \o @]
         /\ enqueued' = [enqueued EXCEPT ![b] = Append(@, c)]
    ELSE UNCHANGED <<cmdq, enqueued>>

\* tx.send(cmd) on the command queue: fails once the Receiver is dropped.
SendCmd(b, c) ==
    IF ReceiverAlive(b)
    THEN /\ cmdq' = [cmdq EXCEPT ![b] = Append(@, c)]
         /\ enqueued' = [enqueued EXCEPT ![b] = Append(@, c)]
    ELSE UNCHANGED <<cmdq, enqueued>>

SendResult(b) ==
    IF ~client[b].command_tx THEN "no pty io loop"
    ELSE IF ~ReceiverAlive(b) THEN "pty io loop closed"
    ELSE "Ok"

\* write_to_pty(data)
write_to_pty(b, data) ==
    /\ IF client[b].command_tx
       THEN SendCmd(b, CmdWrite(data))
       ELSE UNCHANGED <<cmdq, enqueued>>
    /\ UNCHANGED <<client, iopc, chanLog, closeCalls>>

write_to_ptyResult(b) == SendResult(b)

\* resize_pty(width, height)
resize_pty(b, width, height) ==
    /\ IF client[b].command_tx
       THEN SendCmd(b, CmdResize(width, height))
       ELSE UNCHANGED <<cmdq, enqueued>>
    /\ UNCHANGED <<client, iopc, chanLog, closeCalls>>

resize_ptyResult(b) == SendResult(b)

\* close() reading command_tx without taking it.
close_TxKept(b) ==
    /\ client' = [client EXCEPT ![b].session = FALSE]
    /\ IF client[b].command_tx
       THEN SendCmd(b, CmdClose)
       ELSE UNCHANGED <<cmdq, enqueued>>
    /\ closeCalls' = [closeCalls EXCEPT ![b] = @ + 1]
    /\ chanLog' = IF client[b].session
                  THEN [chanLog EXCEPT
                          ![b] = Append(@, Op("session_disconnect", 0, 0, "caller"))]
                  ELSE chanLog
    /\ UNCHANGED iopc

\* close(): take command_tx and send Close (result ignored), take the session
\* and disconnect it; always Ok.
close(b) ==
    /\ client' = [client EXCEPT ![b].command_tx = FALSE, ![b].session = FALSE]
    /\ IF client[b].command_tx
       THEN SendCmd(b, CmdClose)
       ELSE UNCHANGED <<cmdq, enqueued>>
    /\ closeCalls' = [closeCalls EXCEPT ![b] = @ + 1]
    /\ chanLog' = IF client[b].session
                  THEN [chanLog EXCEPT
                          ![b] = Append(@, Op("session_disconnect", 0, 0, "caller"))]
                  ELSE chanLog
    /\ UNCHANGED iopc

closeResult(b) == "Ok"

\* ------------------------------------------------------ the I/O loop worker
\* LoopExit leaving the loop running behind the command it took.
LoopExit_Lingers(b, cause, closes) ==
    /\ iopc' = [iopc EXCEPT ![b] = "read"]
    /\ exitCause' = [exitCause EXCEPT ![b] = cause]
    /\ cmdq' = [cmdq EXCEPT ![b] = IF @ = <<>> THEN @ ELSE Tail(@)]
    /\ chanLog' = [chanLog EXCEPT
                     ![b] = IF closes
                            THEN Append(@, Op("close", 0, 0, "worker"))
                            ELSE @]

\* The worker ends: the channel, the command Receiver and the output Sender
\* it owns are dropped (queued commands are discarded with the Receiver).
LoopExit(b, cause, closes) ==
    /\ iopc' = [iopc EXCEPT ![b] = "done"]
    /\ exitCause' = [exitCause EXCEPT ![b] = cause]
    /\ cmdq' = [cmdq EXCEPT ![b] = <<>>]
    /\ chanLog' = [chanLog EXCEPT
                     ![b] = IF closes
                            THEN @ \o <<Op("close", 0, 0, "worker"),
                                        Op("drop", 0, 0, "worker")>>
                            ELSE Append(@, Op("drop", 0, 0, "worker"))]

\* Lines 100-123: one command_rx.try_recv() of the drain loop.
LoopDrain(b) ==
    /\ iopc[b] = "drain"
    /\ ~pending_write[b].some
    /\ IF cmdq[b] # <<>>
       THEN LET c == Head(cmdq[b]) IN
            CASE c.cmd = "Write" ->
                    /\ pending_write' = [pending_write EXCEPT ![b] = SomePending(c.data, 0)]
                    /\ dequeued' = [dequeued EXCEPT ![b] = @ \o c.data]
                    /\ cmdq' = [cmdq EXCEPT ![b] = Tail(@)]
                    /\ iopc' = [iopc EXCEPT ![b] = "write"]
                    /\ UNCHANGED <<chanLog, exitCause>>
              [] c.cmd = "Resize" ->
                    /\ chanLog' = [chanLog EXCEPT
                          ![b] = Append(@, Op("resize", c.width, c.height, "worker"))]
                    /\ cmdq' = [cmdq EXCEPT ![b] = Tail(@)]
                    /\ UNCHANGED <<pending_write, dequeued, iopc, exitCause>>
              [] c.cmd = "Close" ->
                    /\ LoopExit(b, "close", TRUE)
                    /\ UNCHANGED <<pending_write, dequeued>>
       ELSE IF SendersAlive(b)
            THEN \* TryRecvError::Empty
                 /\ iopc' = [iopc EXCEPT ![b] = "read"]
                 /\ UNCHANGED <<cmdq, pending_write, dequeued, chanLog, exitCause>>
            ELSE \* TryRecvError::Disconnected
                 /\ LoopExit(b, "disconnected", TRUE)
                 /\ UNCHANGED <<pending_write, dequeued>>
    /\ UNCHANGED <<client, outq, rxOpen, produced, enqueued, closeCalls>>

\* The bytes data[offset+1..offset+n] accepted by one channel.write.
Accepted(data, offset, n) ==
    [i \in 1..n |-> Op("write", data[offset + i], 0, "worker")]

\* WriteOk dropping what a partial write has left of the buffer.
WriteOk_DropsRest(b, n) ==
    /\ chanLog' = [chanLog EXCEPT
          ![b] = @ \o Accepted(pending_write[b].data, pending_write[b].offset, n)]
    /\ pending_write' = [pending_write EXCEPT ![b] = NoPending]
    /\ iopc' = [iopc EXCEPT ![b] = "read"]
    /\ UNCHANGED <<cmdq, exitCause>>

\* WriteOk with the offset of a partial write not advanced.
WriteOk_OffsetKept(b, n) ==
    LET data == pending_write[b].data
        offset == pending_write[b].offset
        next == offset + n
    IN  /\ chanLog' = [chanLog EXCEPT ![b] = @ \o Accepted(data, offset, n)]
        /\ IF next < Len(data)
           THEN UNCHANGED <<pending_write, iopc>>
           ELSE /\ pending_write' = [pending_write EXCEPT ![b] = NoPending]
                /\ iopc' = [iopc EXCEPT ![b] = "read"]
        /\ UNCHANGED <<cmdq, exitCause>>

\* Lines 129-135: channel.write returned Ok(n).
WriteOk(b, n) ==
    LET data == pending_write[b].data
        offset == pending_write[b].offset
        next == offset + n
    IN  /\ chanLog' = [chanLog EXCEPT ![b] = @ \o Accepted(data, offset, n)]
        /\ IF next < Len(data)
           THEN /\ pending_write' = [pending_write EXCEPT
                    ![b] = [SomePending(data, next) EXCEPT
                               !.mark = IF pending_write[b].mark = 0 /\ next > 0
                                        THEN Len(enqueued[b])
                                        ELSE pending_write[b].mark]]
                /\ UNCHANGED iopc
           ELSE /\ pending_write' = [pending_write EXCEPT ![b] = NoPending]
                /\ iopc' = [iopc EXCEPT ![b] = "read"]
        /\ UNCHANGED <<cmdq, exitCause>>

\* Lines 125-148: one attempt to write the unsent suffix of the pending write.
LoopWrite(b) ==
    /\ iopc[b] = "write"
    /\ pending_write[b].some
    /\ LET data == pending_write[b].data
           offset == pending_write[b].offset
       IN  IF offset < Len(data)
           THEN \/ \E n \in 0..(Len(data) - offset) : WriteOk(b, n)
                \/ \* would-block: same pending write, `continue`
                   /\ pending_write' = [pending_write EXCEPT ![b].blocked = TRUE]
                   /\ UNCHANGED <<iopc, chanLog, cmdq, exitCause>>
                \/ \* any other error: `break`
                   /\ LoopExit(b, "write_error", FALSE)
                   /\ pending_write' = [pending_write EXCEPT ![b] = NoPending]
           ELSE /\ pending_write' = [pending_write EXCEPT ![b] = NoPending]
                /\ iopc' = [iopc EXCEPT ![b] = "read"]
                /\ UNCHANGED <<chanLog, cmdq, exitCause>>
    /\ UNCHANGED <<client, outq, rxOpen, dequeued, produced, enqueued, closeCalls>>

\* Top of the outer loop: the drain is skipped while a write is pending.
LoopTop(b) == IF pending_write[b].some THEN "write" ELSE "drain"

\* The bytes the remote shell sends, in order: "a" and U+00E9 (61 C3 A9),
\* again and again; MaxOut of them in all.
RemoteByte(i) == <<97, 195, 169>>[((i - 1) % 3) + 1]

\* The bytes read from the channel so far.
Received(b) == Flatten(produced[b])

\* buf[..n] of a read that finds n bytes after the first pos.
Chunk(pos, n) == [i \in 1..n |-> RemoteByte(pos + i)]

\* Lines 150-172: one channel.read.
LoopRead(b) ==
    /\ iopc[b] = "read"
    /\ \/ \* Ok(0): the remote side closed the shell
          /\ LoopExit(b, "eof", FALSE)
          /\ UNCHANGED <<outq, produced>>
       \/ \* Ok(n), n > 0
          /\ \E n \in 1..(MaxOut - Len(Received(b))) :
             LET data == Chunk(Len(Received(b)), n) IN
             /\ produced' = [produced EXCEPT ![b] = Append(@, data)]
             /\ IF rxOpen[b]
                THEN /\ outq' = [outq EXCEPT ![b] = Append(@, data)]
                     /\ iopc' = [iopc EXCEPT ![b] = LoopTop(b)]
                     /\ UNCHANGED <<cmdq, chanLog, exitCause>>
                ELSE /\ LoopExit(b, "output_closed", FALSE)
                     /\ UNCHANGED outq
       \/ \* would-block
          /\ iopc' = [iopc EXCEPT ![b] = LoopTop(b)]
          /\ UNCHANGED <<cmdq, chanLog, exitCause, outq, produced>>
       \/ \* any other error
          /\ LoopExit(b, "read_error", FALSE)
          /\ UNCHANGED <<outq, produced>>
    /\ UNCHANGED <<client, rxOpen, pending_write, dequeued, enqueued, closeCalls>>


\* ------------------------------------------- a caller of the bridge's methods
\* SpecIo drives bridge 1 through the public methods of Ssh2PtyClient in any
\* order, next to its I/O loop worker. The caller holds the output receiver.
\* The bridge is set up at most once (one session, one channel, one loop);
\* MaxApiCalls bounds the calls of write_to_pty, resize_pty and close and the
\* drops.
Sizes == {<<100, 40>>, <<132, 50>>}
OptSizes == {<<NoneU32, NoneU32>>, <<100, 40>>}

\* The payload of the k-th call: len bytes no other call uses.
Stamp(k, len) == [i \in 1..len |-> 16 * k + i]

CallNo == MaxApiCalls - apiBudget

Called(op, ret) ==
    /\ lastCall' = [op |-> op, ret |-> ret]
    /\ apiBudget' = apiBudget - 1
    /\ UNCHANGED <<sessVars, sideVars>>

SetUp(op, ret) ==
    /\ lastCall' = [op |-> op, ret |-> ret]
    /\ UNCHANGED <<apiBudget, sessVars, sideVars>>

CanCall(b) == apiBudget > 0 /\ ~client[b].dropped

CanSetUp(b) == ~client[b].dropped /\ iopc[b] = "idle" /\ closeCalls[b] = 0

ApiConnect(b) ==
    /\ CanSetUp(b) /\ ~client[b].session
    /\ \E ok \in BOOLEAN :
          /\ connect(b, ok)
          /\ SetUp("connect", connectResult(b, ok))
    /\ UNCHANGED <<outq, rxOpen, pending_write, dequeued, produced, exitCause>>

ApiCreatePty(b) ==
    /\ CanSetUp(b) /\ ~client[b].channel
    /\ \E ok \in BOOLEAN, sz \in OptSizes :
          /\ create_pty_session(b, ok, sz[1], sz[2])
          /\ SetUp("create_pty_session", create_pty_sessionResult(b, ok))
    /\ UNCHANGED <<outq, rxOpen, pending_write, dequeued, produced, exitCause>>

ApiStartIo(b) ==
    /\ CanSetUp(b)
    /\ start_pty_io(b)
    /\ SetUp("start_pty_io", start_pty_ioResult(b))
    /\ UNCHANGED <<outq, rxOpen, pending_write, dequeued, produced, exitCause>>

ApiWrite(b) ==
    /\ CanCall(b)
    /\ \E len \in 0..MaxPayload : write_to_pty(b, Stamp(CallNo, len))
    /\ Called("write_to_pty", write_to_ptyResult(b))
    /\ UNCHANGED <<outq, rxOpen, pending_write, dequeued, produced, exitCause>>

ApiResize(b) ==
    /\ CanCall(b)
    /\ \E sz \in Sizes : resize_pty(b, sz[1], sz[2])
    /\ Called("resize_pty", resize_ptyResult(b))
    /\ UNCHANGED <<outq, rxOpen, pending_write, dequeued, produced, exitCause>>

ApiClose(b) ==
    /\ CanCall(b)
    /\ close(b)
    /\ Called("close", closeResult(b))
    /\ UNCHANGED <<outq, rxOpen, pending_write, dequeued, produced, exitCause>>

\* The owner drops the Ssh2PtyClient value: its fields are dropped with it.
ApiDropClient(b) ==
    /\ CanCall(b)
    /\ client' = [client EXCEPT ![b].dropped = TRUE]
    /\ Called("drop", "Ok")
    /\ UNCHANGED <<cmdq, iopc, chanLog, outq, rxOpen, pending_write, dequeued,
                   produced, exitCause, enqueued, closeCalls>>

\* The owner of the output receiver takes one chunk, or drops the receiver.
ApiRecv(b) ==
    /\ rxOpen[b] /\ outq[b] # <<>>
    /\ outq' = [outq EXCEPT ![b] = Tail(@)]
    /\ UNCHANGED <<client, cmdq, iopc, chanLog, rxOpen, pending_write, dequeued,
                   produced, exitCause, enqueued, closeCalls, lastCall,
                   apiBudget, sessVars, sideVars>>

ApiDropRx(b) ==
    /\ rxOpen[b] /\ apiBudget > 0
    /\ rxOpen' = [rxOpen EXCEPT ![b] = FALSE]
    /\ outq' = [outq EXCEPT ![b] = <<>>]
    /\ Called("drop_rx", "Ok")
    /\ UNCHANGED <<client, cmdq, iopc, chanLog, pending_write, dequeued,
                   produced, exitCause, enqueued, closeCalls>>

WorkerStep(b) ==
    /\ \/ LoopDrain(b)
       \/ LoopWrite(b)
       \/ LoopRead(b)
    /\ UNCHANGED <<apiVars, sideVars, sessVars>>

\* ------------------------------------------------- text, bytes and frames
\* A String is a sequence of Unicode scalar values, a Vec<u8> one of bytes.
REPLACEMENT == 65533

\* str::as_bytes: the UTF-8 encoding of one scalar value / of a String.
EncodeChar(c) ==
    IF c < 128 THEN <<c>>
    ELSE IF c < 2048 THEN <<192 + (c \div 64), 128 + (c % 64)>>
    ELSE IF c < 65536
         THEN <<224 + (c \div 4096), 128 + ((c \div 64) % 64), 128 + (c % 64)>>
         ELSE <<240 + (c \div 262144), 128 + ((c \div 4096) % 64),
                128 + ((c \div 64) % 64), 128 + (c % 64)>>

RECURSIVE as_bytes(_)
as_bytes(str) ==
    IF str = <<>> THEN <<>> ELSE EncodeChar(Head(str)) \o as_bytes(Tail(str))

\* Number of continuation bytes a lead byte announces (-1: not a lead byte).
Continuations(b) ==
    IF b < 128 THEN 0
    ELSE IF b >= 194 /\ b <= 223 THEN 1
    ELSE IF b >= 224 /\ b <= 239 THEN 2
    ELSE IF b >= 240 /\ b <= 244 THEN 3
    ELSE -1

\* The range allowed for the k-th byte after lead byte b.
ContinuationOk(b, k, x) ==
    IF k = 1 /\ b = 224 THEN x >= 160 /\ x <= 191
    ELSE IF k = 1 /\ b = 237 THEN x >= 128 /\ x <= 159
    ELSE IF k = 1 /\ b = 240 THEN x >= 144 /\ x <= 191
    ELSE IF k = 1 /\ b = 244 THEN x >= 128 /\ x <= 143
    ELSE x >= 128 /\ x <= 191

\* How many bytes after the lead byte bytes[i] continue its sequence validly.
RECURSIVE ValidRun(_, _, _)
ValidRun(bytes, i, k) ==
    IF k > Continuations(bytes[i]) \/ i + k > Len(bytes) THEN k - 1
    ELSE IF ContinuationOk(bytes[i], k, bytes[i + k])
         THEN ValidRun(bytes, i, k + 1)
         ELSE k - 1

DecodeAt(bytes, i) ==
    LET b == bytes[i]
        n == Continuations(b)
    IN  IF n = 0 THEN b
        ELSE IF n = 1 THEN (b - 192) * 64 + (bytes[i + 1] - 128)
        ELSE IF n = 2
             THEN (b - 224) * 4096 + (bytes[i + 1] - 128) * 64 + (bytes[i + 2] - 128)
             ELSE (b - 240) * 262144 + (bytes[i + 1] - 128) * 4096
                     + (bytes[i + 2] - 128) * 64 + (bytes[i + 3] - 128)

\* String::from_utf8_lossy: every maximal invalid part becomes U+FFFD.
RECURSIVE LossyFrom(_, _)
LossyFrom(bytes, i) ==
    IF i > Len(bytes) THEN <<>>
    ELSE LET n == Continuations(bytes[i])
             run == IF n < 0 THEN 0 ELSE ValidRun(bytes, i, 1)
         IN  IF n >= 0 /\ run = n
             THEN <<DecodeAt(bytes, i)>> \o LossyFrom(bytes, i + n + 1)
             ELSE <<REPLACEMENT>> \o LossyFrom(bytes, i + run + 1)

from_utf8_lossy(bytes) == LossyFrom(bytes, 1)

\* char::is_whitespace on the characters the model uses.
Space == 32
Newline == 10
IsWhitespace(c) == c \in {9, 10, 11, 12, 13, 32, 133, 160}

RECURSIVE trim_start(_)
trim_start(str) ==
    IF str # <<>> /\ IsWhitespace(Head(str)) THEN trim_start(Tail(str)) ELSE str

RECURSIVE trim_end(_)
trim_end(str) ==
    IF str # <<>> /\ IsWhitespace(str[Len(str)])
    THEN trim_end(SubSeq(str, 1, Len(str) - 1))
    ELSE str

trim(str) == trim_end(trim_start(str))

\* The control messages. The model writes a JSON object as `{`, one tag
\* character for its "type", the characters of its fields, `}`:
\*   {c} {cWH}  connect (col_width, row_height absent or given)
\*   {iDATA}    input with data DATA
\*   {rWH}      resize
\*   {d}        disconnect
\* where W and H are one character each standing for a u32.
LBrace == 123
RBrace == 125
TagConnect == 99
TagInput == 105
TagResize == 114
TagDisconnect == 100
DimChars == {49, 52}
Dim(c) == IF c = 49 THEN 100 ELSE 40

NoMessage == [ok |-> FALSE, type |-> "none", data |-> <<>>,
              width |-> NoneU32, height |-> NoneU32]
Message(type, data, w, h) ==
    [ok |-> TRUE, type |-> type, data |-> data, width |-> w, height |-> h]

\* serde_json::from_str::<ClientMessage>(json): NoMessage stands for Err.
ParseClientMessage(json) ==
    IF Len(json) < 3 \/ json[1] # LBrace \/ json[Len(json)] # RBrace
    THEN NoMessage
    ELSE LET tag == json[2]
             body == SubSeq(json, 3, Len(json) - 1)
             dims == Len(body) = 2 /\ body[1] \in DimChars /\ body[2] \in DimChars
         IN  IF tag = TagConnect /\ body = <<>>
             THEN Message("connect", <<>>, NoneU32, NoneU32)
             ELSE IF tag = TagConnect /\ dims
             THEN Message("connect", <<>>, Dim(body[1]), Dim(body[2]))
             ELSE IF tag = TagInput
             THEN Message("input", body, NoneU32, NoneU32)
             ELSE IF tag = TagResize /\ dims
             THEN Message("resize", <<>>, Dim(body[1]), Dim(body[2]))
             ELSE IF tag = TagDisconnect /\ body = <<>>
             THEN Message("disconnect", <<>>, NoneU32, NoneU32)
             ELSE NoMessage

\* Dispatch with the raw-input fallback carrying the trimmed text.
Dispatch_Trimmed(text) ==
    IF text = <<>> THEN [NoMessage EXCEPT !.type = "empty"]
    ELSE LET starts_with_json ==
                 trim_start(text) # <<>> /\ Head(trim_start(text)) = LBrace
             parsed == ParseClientMessage(trim(text))
         IN  IF starts_with_json /\ parsed.ok
             THEN parsed
             ELSE Message("input", trim(text), NoneU32, NoneU32)

\* Lines 262-306 of handle_text_message: what a text is dispatched as.
\* "empty": ignored; otherwise the parsed message, or the raw-input fallback
\* carrying the original text.
Dispatch(text) ==
    IF text = <<>> THEN [NoMessage EXCEPT !.type = "empty"]
    ELSE LET starts_with_json ==
                 trim_start(text) # <<>> /\ Head(trim_start(text)) = LBrace
             parsed == ParseClientMessage(trim(text))
         IN  IF starts_with_json /\ parsed.ok
             THEN parsed
             ELSE Message("input", text, NoneU32, NoneU32)

\* ws::Message as received from the client; afterStop records that the
\* client sent the frame when the actor had already stopped.
Text(str) == [kind |-> "Text", body |-> str, afterStop |-> FALSE]
Binary(bytes) == [kind |-> "Binary", body |-> bytes, afterStop |-> FALSE]
Ping == [kind |-> "Ping", body |-> <<>>, afterStop |-> FALSE]
Close == [kind |-> "Close", body |-> <<>>, afterStop |-> FALSE]
NoFrame == [kind |-> "None", body |-> <<>>, afterStop |-> FALSE]

\* Lines 241-249: the text a Text or Binary frame is handled as.
FrameText(f) == IF f.kind = "Binary" THEN from_utf8_lossy(f.body) ELSE f.body

\* ------------------------------------------------------ the session actor
\* A frame emitted to the client: {"type": type, ...}. `att` names the
\* connect attempt whose task produced it (0: the actor itself), `message`
\* the error text, `data` the output text.
Frame(type, att, message, data) ==
    [type |-> type, att |-> att, message |-> message, data |-> data]

\* The mailbox messages of models.rs.
SetSshClient(b) == [msg |-> "SetSshClient", client |-> b, connected |-> TRUE,
                    text |-> Frame("none", 0, "", <<>>)]
SendWsMessage(frame) == [msg |-> "SendWsMessage", client |-> 0,
                         connected |-> FALSE, text |-> frame]

\* A task spawned by handle_input, handle_resize or disconnect_ssh.
Task(op, b, data, w, h) ==
    [op |-> op, client |-> b, data |-> data, width |-> w, height |-> h]

NoAttempt == [pc |-> "none", cols |-> NoneU32, rows |-> NoneU32,
              steps |-> <<>>, result |-> "none"]

Attempts == Bridges
Started(att) == {a \in Attempts : att[a].pc # "none"}

\* The actor's own state, as the handlers below transform it.
Self == [ssh_client |-> ssh_client, connected |-> connected, wsOut |-> wsOut,
         spawned |-> spawned, attempt |-> attempt]

Becomes(st) ==
    /\ ssh_client' = st.ssh_client
    /\ connected' = st.connected
    /\ wsOut' = st.wsOut
    /\ spawned' = st.spawned
    /\ attempt' = st.attempt

\* Lines 62-65.
send_error(st, message) ==
    [st EXCEPT !.wsOut = Append(@, Frame("error", 0, message, <<>>))]

\* disconnect_ssh forgetting to clear the connected flag.
disconnect_ssh_FlagKept(st) ==
    [st EXCEPT
        !.spawned = IF st.ssh_client # 0
                    THEN Append(@, Task("close", st.ssh_client, <<>>, 0, 0))
                    ELSE @,
        !.ssh_client = 0,
        !.wsOut = Append(@, Frame("disconnected", 0, "", <<>>))]

\* Lines 43-59: take the client and spawn its close(), clear connected, emit
\* `disconnected`.
disconnect_ssh(st) ==
    [st EXCEPT
        !.spawned = IF st.ssh_client # 0
                    THEN Append(@, Task("close", st.ssh_client, <<>>, 0, 0))
                    ELSE @,
        !.ssh_client = 0,
        !.connected = FALSE,
        !.wsOut = Append(@, Frame("disconnected", 0, "", <<>>))]

\* Lines 68-137: reject when connected, else spawn the connect task.
handle_connect(st, pty_cols, pty_rows) ==
    IF st.connected
    THEN send_error(st, "already connected")
    ELSE LET a == Cardinality(Started(st.attempt)) + 1 IN
         [st EXCEPT !.attempt[a] = [pc |-> "connect", cols |-> pty_cols,
                                    rows |-> pty_rows, steps |-> <<>>,
                                    result |-> "none"]]

\* Lines 140-173.
handle_input(st, data) ==
    IF ~st.connected
    THEN send_error(st, "not connected")
    ELSE IF st.ssh_client # 0
         THEN [st EXCEPT !.spawned =
                  Append(@, Task("write", st.ssh_client, as_bytes(data), 0, 0))]
         ELSE send_error(st, "client not initialised")

\* handle_resize ignoring a resize while not connected.
handle_resize_Silent(st, width, height) ==
    IF ~st.connected
    THEN st
    ELSE IF st.ssh_client # 0
         THEN [st EXCEPT !.spawned =
                  Append(@, Task("resize", st.ssh_client, <<>>, width, height))]
         ELSE st

\* Lines 176-190.
handle_resize(st, width, height) ==
    IF ~st.connected
    THEN send_error(st, "not connected")
    ELSE IF st.ssh_client # 0
         THEN [st EXCEPT !.spawned =
                  Append(@, Task("resize", st.ssh_client, <<>>, width, height))]
         ELSE st

\* Lines 260-307.
handle_text_message(st, text) ==
    LET m == Dispatch(text) IN
    CASE m.type = "empty" -> st
      [] m.type = "connect" -> handle_connect(st, m.width, m.height)
      [] m.type = "input" -> handle_input(st, m.data)
      [] m.type = "resize" -> handle_resize(st, m.width, m.height)
      [] m.type = "disconnect" -> disconnect_ssh(st)

\* ctx.stop() followed by Actor::stopping (lines 224-228): disconnect_ssh,
\* then the actor is stopped and its mailbox is closed.
Stop(st, cause) ==
    /\ Becomes(disconnect_ssh(st))
    /\ actor' = "stopped"
    /\ stopCause' = cause
    /\ mailbox' = <<>>

\* Lines 231-257: the actor handles the next frame of the client's stream.
StreamHandle ==
    /\ actor = "running"
    /\ inflight # NoFrame
    /\ inflight' = NoFrame
    /\ IF inflight.kind \in {"Text", "Binary"}
       THEN /\ Becomes(handle_text_message(Self, FrameText(inflight)))
            /\ hb' = 0
            /\ UNCHANGED <<actor, stopCause, mailbox>>
       ELSE IF inflight.kind = "Ping"
       THEN /\ hb' = 0
            /\ UNCHANGED <<ssh_client, connected, wsOut, spawned, attempt,
                           actor, stopCause, mailbox>>
       ELSE /\ Stop(Self, "close")
            /\ UNCHANGED hb
    /\ UNCHANGED <<bridgeVars, apiVars, sideVars, budget>>

\* The heartbeat check of hb() with a timeout, skipping ctx.stop().
HbTick_NoStop ==
    /\ actor = "running"
    /\ IF hb + HEARTBEAT_INTERVAL > CLIENT_TIMEOUT
       THEN /\ Becomes(disconnect_ssh(Self))
            /\ stopCause' = "timeout"
            /\ UNCHANGED <<hb, actor, mailbox>>
       ELSE /\ hb' = hb + HEARTBEAT_INTERVAL
            /\ UNCHANGED <<ssh_client, connected, wsOut, spawned, attempt,
                           actor, stopCause, mailbox>>
    /\ UNCHANGED <<bridgeVars, apiVars, sideVars, inflight, budget>>

\* Lines 24-40: the interval closure of hb(), HEARTBEAT_INTERVAL after the
\* previous one: on a timeout disconnect_ssh and ctx.stop(), else a ping.
HbTick ==
    /\ actor = "running"
    /\ IF hb + HEARTBEAT_INTERVAL > CLIENT_TIMEOUT
       THEN /\ Stop(disconnect_ssh(Self), "timeout")
            /\ UNCHANGED hb
       ELSE /\ hb' = hb + HEARTBEAT_INTERVAL
            /\ UNCHANGED <<ssh_client, connected, wsOut, spawned, attempt,
                           actor, stopCause, mailbox>>
    /\ UNCHANGED <<bridgeVars, apiVars, sideVars, inflight, budget>>

\* Lines 313-328: the actor handles the next message of its mailbox.
MailboxHandle ==
    /\ actor = "running"
    /\ mailbox # <<>>
    /\ mailbox' = Tail(mailbox)
    /\ LET m == Head(mailbox) IN
       IF m.msg = "SetSshClient"
       THEN /\ ssh_client' = m.client
            /\ connected' = m.connected
            /\ UNCHANGED wsOut
       ELSE /\ wsOut' = Append(wsOut, m.text)
            /\ UNCHANGED <<ssh_client, connected>>
    /\ UNCHANGED <<bridgeVars, apiVars, sideVars, hb, actor, stopCause, attempt, spawned,
                   inflight, budget>>

\* do_send putting the message at the head of the mailbox.
do_send_Front(ms) == mailbox' = IF actor = "running" THEN ms \o mailbox ELSE mailbox

\* addr.do_send(m): lost when the actor has stopped.
do_send(ms) == mailbox' = IF actor = "running" THEN mailbox \o ms ELSE mailbox

\* Fails binding the bridge all the same.
Fails_Bind(a, step, ms) ==
    /\ attempt' = [attempt EXCEPT ![a].pc = "done", ![a].result = step]
    /\ do_send(<<SetSshClient(a)>> \o ms)

Fails(a, step, ms) ==
    /\ attempt' = [attempt EXCEPT ![a].pc = "done", ![a].result = step]
    /\ do_send(ms)

ErrorFrame(a, step) == SendWsMessage(Frame("error", a, step, <<>>))

\* Lines 91-104: Ssh2PtyClient::new and client.connect().
TaskConnect(a) ==
    /\ attempt[a].pc = "connect"
    /\ \E ok \in BOOLEAN :
          /\ connect(a, ok)
          /\ IF connectResult(a, ok) = "Ok"
             THEN /\ attempt' = [attempt EXCEPT ![a].pc = "pty",
                                                ![a].steps = Append(@, "connect")]
                  /\ UNCHANGED mailbox
             ELSE Fails(a, "connect failed", <<ErrorFrame(a, "connect failed")>>)
    /\ UNCHANGED <<outq, rxOpen, pending_write, dequeued, produced, exitCause,
                   apiVars, sideVars, hb, ssh_client, connected, actor, stopCause, wsOut,
                   spawned, inflight, budget>>

\* Lines 105-111: client.create_pty_session(pty_cols, pty_rows).
TaskCreatePty(a) ==
    /\ attempt[a].pc = "pty"
    /\ \E ok \in BOOLEAN :
          /\ create_pty_session(a, ok, attempt[a].cols, attempt[a].rows)
          /\ IF create_pty_sessionResult(a, ok) = "Ok"
             THEN /\ attempt' = [attempt EXCEPT ![a].pc = "io",
                                                ![a].steps = Append(@, "pty")]
                  /\ UNCHANGED mailbox
             ELSE Fails(a, "pty failed", <<ErrorFrame(a, "pty failed")>>)
    /\ UNCHANGED <<outq, rxOpen, pending_write, dequeued, produced, exitCause,
                   apiVars, sideVars, hb, ssh_client, connected, actor, stopCause, wsOut,
                   spawned, inflight, budget>>

\* What the task sends once start_pty_io has returned Ok (lines 120-128).
Announce(a) == <<SetSshClient(a), SendWsMessage(Frame("connected", a, "", <<>>))>>

\* Lines 112-128: the output queue, client.start_pty_io(tx), SetSshClient and
\* the `connected` frame.
TaskStartIo(a) ==
    /\ attempt[a].pc = "io"
    /\ start_pty_io(a)
    /\ IF start_pty_ioResult(a) = "Ok"
       THEN /\ attempt' = [attempt EXCEPT ![a].pc = "forward",
                                          ![a].steps = Append(@, "io"),
                                          ![a].result = "Ok"]
            /\ do_send(Announce(a))
            /\ rxOpen' = [rxOpen EXCEPT ![a] = TRUE]
       ELSE /\ Fails(a, "io failed", <<ErrorFrame(a, "io failed")>>)
            /\ UNCHANGED rxOpen
    /\ UNCHANGED <<outq, pending_write, dequeued, produced, exitCause,
                   apiVars, sideVars, hb, ssh_client, connected, actor, stopCause, wsOut,
                   spawned, inflight, budget>>

\* Lines 129-135: one rx.recv() of the forwarding loop; the task ends when
\* the queue is empty and its sender (the I/O loop) is gone.
TaskForward(a) ==
    /\ attempt[a].pc = "forward"
    /\ IF outq[a] # <<>>
       THEN /\ outq' = [outq EXCEPT ![a] = Tail(@)]
            /\ do_send(<<SendWsMessage(
                   Frame("output", a, "", from_utf8_lossy(Head(outq[a]))))>>)
            /\ UNCHANGED <<attempt, rxOpen>>
       ELSE /\ iopc[a] = "done"
            /\ attempt' = [attempt EXCEPT ![a].pc = "done"]
            /\ rxOpen' = [rxOpen EXCEPT ![a] = FALSE]
            /\ UNCHANGED <<outq, mailbox>>
    /\ UNCHANGED <<client, cmdq, iopc, pending_write, chanLog, dequeued,
                   produced, exitCause, enqueued, closeCalls,
                   apiVars, sideVars, hb, ssh_client, connected, actor, stopCause, wsOut,
                   spawned, inflight, budget>>

RemoveAt(seq, i) == SubSeq(seq, 1, i - 1) \o SubSeq(seq, i + 1, Len(seq))

\* Lines 45-49, 161-168, 184-188 with AnyPtyClient (lines 346-365): a spawned
\* task locks the client and calls the method; an Err is only logged.
TaskRun(i) ==
    /\ i \in 1..Len(spawned)
    /\ LET t == spawned[i] IN
       CASE t.op = "write" -> write_to_pty(t.client, t.data)
         [] t.op = "resize" -> resize_pty(t.client, t.width, t.height)
         [] t.op = "close" -> close(t.client)
    /\ spawned' = RemoveAt(spawned, i)
    /\ UNCHANGED <<outq, rxOpen, pending_write, dequeued, produced, exitCause,
                   apiVars, sideVars, hb, ssh_client, connected, actor, stopCause,
                   mailbox, wsOut, attempt, inflight, budget>>

\* ------------------------------------------------------------- the client
J(tag, body) == <<LBrace, tag>> \o body \o <<RBrace>>

\* The frames the client of Spec chooses from.
SessionFrames ==
    { Text(J(TagConnect, <<>>)),
      Text(J(TagInput, <<97>>)),
      Text(J(TagResize, <<49, 52>>)),
      Text(J(TagDisconnect, <<>>)),
      Text(<<97, Newline>>),
      Ping,
      Close }

IsConnect(f) ==
    f.kind \in {"Text", "Binary"} /\ Dispatch(FrameText(f)).type = "connect"

\* The client sends a frame; it is handled in the order sent. A connect is
\* sent only while the session has attempts left.
ClientSend(frames) ==
    /\ budget > 0
    /\ inflight = NoFrame
    /\ \E f \in frames :
          /\ IsConnect(f) => Cardinality(Started(attempt)) < MaxAttempts
          /\ inflight' = [f EXCEPT !.afterStop = (actor = "stopped")]
    /\ budget' = budget - 1
    /\ UNCHANGED <<bridgeVars, apiVars, sideVars, hb, ssh_client, connected, actor,
                   stopCause, mailbox, wsOut, attempt, spawned>>

InitSession(frames) ==
    /\ hb = 0
    /\ ssh_client = 0
    /\ connected = FALSE
    /\ actor = "running"
    /\ stopCause = "none"
    /\ mailbox = <<>>
    /\ wsOut = <<>>
    /\ attempt = [a \in Attempts |-> NoAttempt]
    /\ spawned = <<>>
    /\ inflight = NoFrame
    /\ budget = frames

\* SshService::new: no client. `issued` and `lastGet` observe the calls:
\* what create_connection returned for each connection, whether that id has
\* been passed to close_connection since, and what get_client returned last.
NewService ==
    [ clients |-> <<>>,
      issued  |-> <<>>,
      lastGet |-> [id |-> 0, ok |-> FALSE, conn |-> 0] ]

\* RusshClient::new, not yet shared: no session, no channel, no input queue.
NewRussh ==
    [ session       |-> FALSE,     \* session.is_some()
      channel       |-> FALSE,     \* channel.is_some()
      input_tx      |-> FALSE,     \* input_tx.is_some()
      shared        |-> FALSE,     \* wrapped in AnyPtyClient::Russh
      client_mutex  |-> 0,         \* the call holding Mutex<RusshClient>, or 0
      channel_mutex |-> "free",    \* who holds Mutex<Channel>: "free" | "loop"
      task          |-> "none",    \* the I/O task: none | spawned | select | done
      in_rx         |-> <<>>,      \* payloads sent to input_tx, not yet received
      rx_open       |-> TRUE,      \* the receiver of the output sender tx is alive
      out           |-> <<>>,      \* chunks sent to tx
      calls         |-> <<>>,      \* the calls made through AnyPtyClient
      log           |-> <<>> ]     \* the operations performed on the channel

InitBridges ==
    /\ client = [b \in Bridges |-> NewClient]
    /\ cmdq = [b \in Bridges |-> <<>>]
    /\ outq = [b \in Bridges |-> <<>>]
    /\ iopc = [b \in Bridges |-> "idle"]
    /\ pending_write = [b \in Bridges |-> NoPending]
    /\ chanLog = [b \in Bridges |-> <<>>]
    /\ dequeued = [b \in Bridges |-> <<>>]
    /\ produced = [b \in Bridges |-> <<>>]
    /\ exitCause = [b \in Bridges |-> "none"]
    /\ enqueued = [b \in Bridges |-> <<>>]
    /\ closeCalls = [b \in Bridges |-> 0]
    /\ russh = NewRussh
    /\ service = NewService

InitIo ==
    /\ InitBridges
    /\ rxOpen = [b \in Bridges |-> b = 1]
    /\ lastCall = [op |-> "new", ret |-> "Ok"]
    /\ apiBudget = MaxApiCalls
    /\ InitSession(0)

NextIo ==
    \/ ApiConnect(1)
    \/ ApiCreatePty(1)
    \/ ApiStartIo(1)
    \/ ApiWrite(1)
    \/ ApiResize(1)
    \/ ApiClose(1)
    \/ ApiDropClient(1)
    \/ ApiRecv(1)
    \/ ApiDropRx(1)
    \/ WorkerStep(1)

SpecIo == InitIo /\ [][NextIo]_vars

\* The worker is about to call channel.write with bytes left to send.
ChannelWrite(b) ==
    /\ iopc[b] = "write"
    /\ pending_write[b].offset < Len(pending_write[b].data)

\* The worker's thread keeps running: every step of its loop is eventually
\* taken. What a call of channel.write returns is for the channel to decide:
\* it may return would-block, or accept no byte, every time.
FairnessIo == WF_vars(WorkerStep(1) /\ ~ChannelWrite(1))

FairSpecIo == SpecIo /\ FairnessIo


\* ----------------------------------------------------------- the session
Init ==
    /\ InitBridges
    /\ rxOpen = [b \in Bridges |-> FALSE]
    /\ lastCall = [op |-> "new", ret |-> "Ok"]
    /\ apiBudget = 0
    /\ InitSession(MaxFrames)

Next ==
    \/ ClientSend(SessionFrames)
    \/ StreamHandle
    \/ MailboxHandle
    \/ HbTick
    \/ \E a \in Attempts : TaskConnect(a)
    \/ \E a \in Attempts : TaskCreatePty(a)
    \/ \E a \in Attempts : TaskStartIo(a)
    \/ \E a \in Attempts : TaskForward(a)
    \/ \E i \in 1..Len(spawned) : TaskRun(i)
    \/ \E b \in Bridges : WorkerStep(b)

Spec == Init /\ [][Next]_vars

\* The scheduling the runtime gives: the actor handles what is queued for it,
\* its interval fires, spawned tasks and workers run. The client is not
\* obliged to send anything.
Fairness ==
    /\ WF_vars(StreamHandle)
    /\ WF_vars(MailboxHandle)
    /\ WF_vars(HbTick)
    /\ WF_vars(\E a \in Attempts :
                  \/ TaskConnect(a) \/ TaskCreatePty(a) \/ TaskStartIo(a)
                  \/ TaskForward(a) \/ WorkerStep(a))
    /\ WF_vars(\E i \in 1..Len(spawned) : TaskRun(i))

FairSpec == Spec /\ Fairness

\* ------------------------------------- the session under arbitrary frames
SeqsUpTo(S, n) == UNION {[1..k -> S] : k \in 0..n}

\* Frame texts: whitespace, the braces, the connect tag and a two-byte
\* character; frame bytes: an ASCII byte and the lead and continuation bytes
\* of U+00E9.
TextChars == {Space, LBrace, RBrace, TagConnect, 233}
ByteValues == {TagConnect, 195, 169}

ParseFrames ==
    {Text(t) : t \in SeqsUpTo(TextChars, MaxTextLen)}
        \cup {Binary(bs) : bs \in SeqsUpTo(ByteValues, MaxTextLen)}

InitParse ==
    /\ InitBridges
    /\ rxOpen = [b \in Bridges |-> FALSE]
    /\ lastCall = [op |-> "new", ret |-> "Ok"]
    /\ apiBudget = 0
    /\ InitSession(MaxParseFrames)

NextParse ==
    \/ ClientSend(ParseFrames)
    \/ StreamHandle
    \/ MailboxHandle
    \/ HbTick
    \/ \E a \in Attempts : TaskConnect(a)
    \/ \E a \in Attempts : TaskCreatePty(a)
    \/ \E a \in Attempts : TaskStartIo(a)
    \/ \E a \in Attempts : TaskForward(a)
    \/ \E i \in 1..Len(spawned) : TaskRun(i)
    \/ \E b \in Bridges : WorkerStep(b)

SpecParse == InitParse /\ [][NextParse]_vars

\* ------------------------------------------------ a bridge closed before use
\* SpecIoClosed lets the caller of SpecIo also call start_pty_io on a bridge
\* on which close() has been called before its loop was started: close() takes
\* command_tx and the session and leaves the channel where it is.
ApiStartIoClosed(b) ==
    /\ ~client[b].dropped /\ iopc[b] = "idle" /\ closeCalls[b] > 0
    /\ start_pty_io(b)
    /\ SetUp("start_pty_io", start_pty_ioResult(b))
    /\ UNCHANGED <<outq, rxOpen, pending_write, dequeued, produced, exitCause>>

NextIoClosed ==
    \/ ApiConnect(1)
    \/ ApiCreatePty(1)
    \/ ApiStartIo(1)
    \/ ApiStartIoClosed(1)
    \/ ApiWrite(1)
    \/ ApiResize(1)
    \/ ApiClose(1)
    \/ ApiDropClient(1)
    \/ ApiRecv(1)
    \/ ApiDropRx(1)
    \/ WorkerStep(1)

SpecIoClosed == InitIo /\ [][NextIoClosed]_vars

\* ------------------------------------------ the session of one connection
\* The frames of a client that connects once and then types and disconnects.
OrderFrames ==
    IF Started(attempt) = {}
    THEN {Text(J(TagConnect, <<>>))}
    ELSE { Text(J(TagInput, <<97>>)),
           Text(<<97, Newline>>),
           Text(J(TagDisconnect, <<>>)) }

InitOrder ==
    /\ InitBridges
    /\ rxOpen = [b \in Bridges |-> FALSE]
    /\ lastCall = [op |-> "new", ret |-> "Ok"]
    /\ apiBudget = 0
    /\ InitSession(MaxOrderFrames)

NextOrder ==
    \/ ClientSend(OrderFrames)
    \/ StreamHandle
    \/ MailboxHandle
    \/ HbTick
    \/ \E a \in Attempts : TaskConnect(a)
    \/ \E a \in Attempts : TaskCreatePty(a)
    \/ \E a \in Attempts : TaskStartIo(a)
    \/ \E a \in Attempts : TaskForward(a)
    \/ \E i \in 1..Len(spawned) : TaskRun(i)
    \/ \E b \in Bridges : WorkerStep(b)

SpecOrder == InitOrder /\ [][NextOrder]_vars

\* ------------------------------------------- RusshClient behind AnyPtyClient
\* SpecRussh drives one RusshClient: its owner sets it up through connect,
\* create_pty_session and start_pty_io, wraps it in Arc<Mutex<RusshClient>>
\* (AnyPtyClient::Russh) and from then on tasks call write_to_pty, resize_pty
\* and close through AnyPtyClient, each call locking the client first.
\* MaxApiCalls bounds the calls, MaxPayload the bytes of a write and MaxOut
\* the chunks the remote sends.
\* A call through AnyPtyClient: it waits for the client mutex ("lock"), runs
\* the method ("run"), may wait for the channel mutex ("channel"), and returns.
RusshCallOf(op, data, size) ==
    [op |-> op, data |-> data, size |-> size, pc |-> "lock", ret |-> "none"]

RusshOp(op, data, size, by) == [op |-> op, data |-> data, size |-> size, by |-> by]

RusshFrame == UNCHANGED <<bridgeVars, apiVars, sessVars, service>>

\* The method returns: the guard of the client mutex is dropped with it.
RusshReturn(r, i, ret) ==
    [r EXCEPT !.calls[i].pc = "done", !.calls[i].ret = ret, !.client_mutex = 0]

RusshCanSetUp == ~russh.shared /\ russh.task = "none"

\* connect: the session is stored when the connection and the password
\* authentication succeed.
RusshConnect ==
    /\ RusshCanSetUp
    /\ ~russh.session
    /\ \E ok \in BOOLEAN : russh' = [russh EXCEPT !.session = ok]
    /\ RusshFrame

\* create_pty_session: Err without a session; the channel is stored when the
\* channel, the pty and the shell are granted.
RusshCreatePty ==
    /\ RusshCanSetUp
    /\ ~russh.channel
    /\ russh.session
    /\ \E ok \in BOOLEAN : russh' = [russh EXCEPT !.channel = ok]
    /\ RusshFrame

\* start_pty_io: Err without a channel; otherwise input_tx is stored and the
\* I/O task is spawned.
RusshStartIo ==
    /\ RusshCanSetUp
    /\ russh.channel
    /\ russh' = [russh EXCEPT !.input_tx = TRUE, !.task = "spawned"]
    /\ RusshFrame

\* The owner wraps the client: AnyPtyClient::Russh(Arc<Mutex<RusshClient>>).
RusshShare ==
    /\ ~russh.shared
    /\ russh' = [russh EXCEPT !.shared = TRUE]
    /\ RusshFrame

\* The I/O task locks the channel once and keeps the guard while it loops.
RusshTaskLock ==
    /\ russh.task = "spawned"
    /\ russh.channel_mutex = "free"
    /\ russh' = [russh EXCEPT !.channel_mutex = "loop", !.task = "select"]
    /\ RusshFrame

\* The task ends: the guard of the channel mutex and in_rx are dropped.
RusshTaskEnd(r) ==
    [r EXCEPT !.task = "done", !.channel_mutex = "free", !.in_rx = <<>>]

\* select!, first branch: a payload of the input queue is written to the
\* channel (a failure of channel.data is only logged).
RusshTaskInput ==
    /\ russh.task = "select"
    /\ russh.in_rx # <<>>
    /\ russh' = [russh EXCEPT
                   !.in_rx = Tail(@),
                   !.log = Append(@, RusshOp("data", Head(russh.in_rx), <<>>, "loop"))]
    /\ RusshFrame

\* select!, second branch: a message of the channel. Data is sent to tx and
\* the loop breaks when the receiver is gone; Eof and Close break the loop.
RusshTaskMsg ==
    /\ russh.task = "select"
    /\ \/ /\ Len(russh.out) < MaxOut
          /\ IF russh.rx_open
             THEN russh' = [russh EXCEPT !.out = Append(@, <<RemoteByte(Len(russh.out) + 1)>>)]
             ELSE russh' = RusshTaskEnd(russh)
       \/ russh' = RusshTaskEnd(russh)
    /\ RusshFrame

\* The holder of the output receiver drops it.
RusshDropRx ==
    /\ russh.rx_open
    /\ russh.task # "none"
    /\ russh' = [russh EXCEPT !.rx_open = FALSE]
    /\ RusshFrame

\* A task calls a method through AnyPtyClient on its clone of the handle.
RusshCall ==
    /\ russh.shared
    /\ Len(russh.calls) < MaxApiCalls
    /\ \E c \in { RusshCallOf("write", Stamp(Len(russh.calls), len), <<>>) : len \in 1..MaxPayload }
              \cup { RusshCallOf("resize", <<>>, s) : s \in Sizes }
              \cup { RusshCallOf("close", <<>>, <<>>) } :
          russh' = [russh EXCEPT !.calls = Append(@, c)]
    /\ RusshFrame

\* c.lock().await of AnyPtyClient: the call gets the client mutex.
RusshCallLock(i) ==
    /\ russh.calls[i].pc = "lock"
    /\ russh.client_mutex = 0
    /\ russh' = [russh EXCEPT !.calls[i].pc = "run", !.client_mutex = i]
    /\ RusshFrame

\* The method's body up to its lock of the channel. write_to_pty sends to
\* input_tx when there is one and returns; resize_pty and close, and
\* write_to_pty without input_tx, go on to channel.lock().await.
RusshCallRun(i) ==
    /\ russh.calls[i].pc = "run"
    /\ LET c == russh.calls[i] IN
       IF c.op = "write" /\ russh.input_tx
       THEN IF russh.task = "done"
            THEN russh' = RusshReturn(russh, i, "Err")
            ELSE russh' = RusshReturn([russh EXCEPT !.in_rx = Append(@, c.data)], i, "Ok")
       ELSE IF russh.channel
            THEN russh' = [russh EXCEPT !.calls[i].pc = "channel"]
            ELSE IF c.op = "close"
                 THEN \E ok \in BOOLEAN :
                        russh' = RusshReturn(
                                   [russh EXCEPT !.log =
                                      IF russh.session
                                      THEN Append(@, RusshOp("disconnect", <<>>, <<>>, i))
                                      ELSE @],
                                   i, IF ok \/ ~russh.session THEN "Ok" ELSE "Err")
                 ELSE russh' = RusshReturn(russh, i, "Err")
    /\ RusshFrame

\* channel.lock().await returns once nobody holds the channel mutex; the
\* call then performs its operation and returns, dropping its guards. close
\* goes on to session.disconnect when channel.close succeeded.
RusshCallChannel(i) ==
    /\ russh.calls[i].pc = "channel"
    /\ russh.channel_mutex = "free"
    /\ LET c == russh.calls[i]
           op == CASE c.op = "write" -> RusshOp("data", c.data, <<>>, i)
                   [] c.op = "resize" -> RusshOp("window_change", <<>>, c.size, i)
                   [] c.op = "close" -> RusshOp("close", <<>>, <<>>, i)
       IN \E ok \in BOOLEAN :
            russh' = RusshReturn(
                       [russh EXCEPT !.log =
                          IF c.op = "close" /\ ok /\ russh.session
                          THEN @ \o <<op, RusshOp("disconnect", <<>>, <<>>, i)>>
                          ELSE Append(@, op)],
                       i, IF ok THEN "Ok" ELSE "Err")
    /\ RusshFrame

InitRussh ==
    /\ InitBridges
    /\ rxOpen = [b \in Bridges |-> FALSE]
    /\ lastCall = [op |-> "new", ret |-> "Ok"]
    /\ apiBudget = 0
    /\ InitSession(0)

NextRussh ==
    \/ RusshConnect
    \/ RusshCreatePty
    \/ RusshStartIo
    \/ RusshShare
    \/ RusshTaskLock
    \/ RusshTaskInput
    \/ RusshTaskMsg
    \/ RusshDropRx
    \/ RusshCall
    \/ \E i \in 1..Len(russh.calls) : RusshCallLock(i)
    \/ \E i \in 1..Len(russh.calls) : RusshCallRun(i)
    \/ \E i \in 1..Len(russh.calls) : RusshCallChannel(i)

SpecRussh == InitRussh /\ [][NextRussh]_vars


\* --------------------------------------------------------------- SshService
\* SpecService drives one SshService through create_connection, get_client and
\* close_connection, called in any order with any id up to MaxConns. Each
\* method holds the lock of `clients` for all it does to the list, so a call
\* is one step. A connection is named by the number of its creation.

\* create_connection: the client connects; its id is the length of the list
\* it is pushed on. A failed connect returns Err and pushes nothing.
create_connection(s, ok) ==
    IF ok
    THEN [s EXCEPT !.clients = Append(@, Len(s.issued) + 1),
                   !.issued = Append(@, [id |-> Len(s.clients), released |-> FALSE])]
    ELSE s

\* get_client: Err for an id not below the length, else clients[client_id].
get_client(s, client_id) ==
    IF client_id >= Len(s.clients)
    THEN [id |-> client_id, ok |-> FALSE, conn |-> 0]
    ELSE [id |-> client_id, ok |-> TRUE, conn |-> s.clients[client_id + 1]]

\* close_connection: Err for an id not below the length, else
\* clients.remove(client_id) and a disconnect whose failure is only logged.
\* Every connection that was given this id has had its id passed.
close_connection(s, client_id) ==
    LET passed == [c \in 1..Len(s.issued) |->
                     IF s.issued[c].id = client_id
                     THEN [s.issued[c] EXCEPT !.released = TRUE]
                     ELSE s.issued[c]]
    IN  IF client_id >= Len(s.clients)
        THEN [s EXCEPT !.issued = passed]
        ELSE [s EXCEPT !.issued = passed,
                       !.clients = RemoveAt(@, client_id + 1)]

ServiceFrame == UNCHANGED <<bridgeVars, apiVars, sessVars, russh>>

SvcCreate ==
    /\ Len(service.issued) < MaxConns
    /\ \E ok \in BOOLEAN : service' = create_connection(service, ok)
    /\ ServiceFrame

SvcGet ==
    /\ \E id \in 0..MaxConns :
          service' = [service EXCEPT !.lastGet = get_client(service, id)]
    /\ ServiceFrame

SvcClose ==
    /\ \E id \in 0..MaxConns : service' = close_connection(service, id)
    /\ ServiceFrame

InitService ==
    /\ InitBridges
    /\ rxOpen = [b \in Bridges |-> FALSE]
    /\ lastCall = [op |-> "new", ret |-> "Ok"]
    /\ apiBudget = 0
    /\ InitSession(0)

NextService ==
    \/ SvcCreate
    \/ SvcGet
    \/ SvcClose

SpecService == InitService /\ [][NextService]_vars

\* ======================================================================
\* Claims
\* ======================================================================

\* The unsent suffix of the pending write of bridge b.
Unsent(b) ==
    IF pending_write[b].some
    THEN SubSeq(pending_write[b].data, pending_write[b].offset + 1,
                Len(pending_write[b].data))
    ELSE <<>>

\* C1: the bytes the channel has accepted are at all times a prefix of the
\* concatenation of the Write payloads in dequeue order (nothing duplicated,
\* skipped or reordered), whatever channel.write returns and whatever Resize
\* commands are enqueued meanwhile; while the loop runs, what is missing is
\* exactly the unsent suffix of the pending write.
C1_WireIsPrefixOfDequeued ==
    \A b \in Bridges :
        /\ IsPrefix(Wire(b), dequeued[b])
        /\ ReceiverAlive(b) => Wire(b) \o Unsent(b) = dequeued[b]

\* A second write is mid-flight (partly accepted) while a Resize is queued.
C1_Witness ==
    \E b \in Bridges :
        /\ pending_write[b].some
        /\ pending_write[b].offset > 0
        /\ pending_write[b].offset < Len(pending_write[b].data)
        /\ Len(dequeued[b]) > Len(pending_write[b].data)
        /\ \E i \in 1..Len(cmdq[b]) : cmdq[b][i].cmd = "Resize"

\* A step in which close() is invoked on bridge b; the call repeats a
\* close() when the previous method call on the bridge was close() too.
CloseCall(b) == closeCalls'[b] = closeCalls[b] + 1

RepeatedClose(b) == CloseCall(b) /\ lastCall.op = "close"

CloseCount(b) == Len(SelectCmds(enqueued[b], "Close"))

CountType(frames, type) == Len(SelectSeq(frames, LAMBDA f : f.type = type))
CountFor(frames, type, a) ==
    Len(SelectSeq(frames, LAMBDA f : f.type = type /\ f.att = a))
Queued == [i \in 1..Len(mailbox) |-> mailbox[i].text]
Binding(a) == \E i \in 1..Len(mailbox) :
                 mailbox[i].msg = "SetSshClient" /\ mailbox[i].client = a

\* The frames emitted after the `connected` frame of attempt a.
SinceConnected(a) ==
    LET at == {i \in 1..Len(wsOut) : wsOut[i].type = "connected" /\ wsOut[i].att = a}
    IN  IF at = {} THEN <<>>
        ELSE LET first == CHOOSE i \in at : \A j \in at : i <= j
             IN  SubSeq(wsOut, first + 1, Len(wsOut))

OwnExit == {"eof", "read_error", "write_error"}
Failures == {"connect failed", "pty failed", "io failed"}
InFlight(a) == attempt[a].pc \in {"connect", "pty", "io"}
Connecting == \E a \in Attempts : InFlight(a) \/ Binding(a)
Idle == ~connected /\ ssh_client = 0 /\ ~Connecting

\* C2 as stated: once the I/O loop of the bound bridge has ended on its own
\* (EOF, read error, write error) and the session has nothing left to react
\* to (the forwarding task has finished, the mailbox is empty), the client has
\* been sent exactly one `disconnected` frame for that connection.
C2_DisconnectedOnLoopExit ==
    \A a \in Attempts :
        ( /\ exitCause[a] \in OwnExit
          /\ attempt[a].pc = "done" /\ attempt[a].result = "Ok"
          /\ actor = "running" /\ mailbox = <<>>
          /\ connected /\ ssh_client = a )
        => CountType(SinceConnected(a), "disconnected") = 1

\* C3 as stated: the heartbeat tick that finds the timeout exceeded emits,
\* through the stop of the actor, exactly one `disconnected` frame, and the
\* actor is stopped.
C3_TimeoutEmitsOneDisconnected ==
    [][(stopCause # "timeout" /\ stopCause' = "timeout") =>
          /\ CountType(wsOut', "disconnected") = CountType(wsOut, "disconnected") + 1
          /\ actor' = "stopped"]_vars

ConnectHandled ==
    /\ actor = "running"
    /\ inflight # NoFrame /\ IsConnect(inflight)
    /\ inflight' = NoFrame

\* C4 as stated: a connect handled while an attempt is in flight or the
\* session is connected emits one error frame, starts no attempt and leaves
\* connected, the bound transport and every bridge as they were.
C4_SecondConnectRejected ==
    [][(ConnectHandled /\ (Connecting \/ connected)) =>
          /\ Len(wsOut') = Len(wsOut) + 1
          /\ wsOut'[Len(wsOut')].type = "error"
          /\ SubSeq(wsOut', 1, Len(wsOut)) = wsOut
          /\ UNCHANGED <<attempt, connected, ssh_client, client, iopc>>]_vars

FailsNow(a) == attempt[a].result = "none" /\ attempt'[a].result \in Failures

\* C5 as stated: the step in which a connect attempt fails hands the actor
\* exactly one error frame for it and nothing else, no `connected` frame of
\* that attempt exists, nothing is bound by it, and the session is Idle (not
\* connected, nothing bound, no attempt in flight), the state in which
\* handle_connect takes the next connect.
C5_FailedAttemptLeavesIdle ==
    [][\A a \in Attempts : FailsNow(a) =>
          /\ actor = "running" =>
                mailbox' = Append(mailbox, ErrorFrame(a, attempt'[a].result))
          /\ CountFor(wsOut' \o Queued', "connected", a) = 0
          /\ ssh_client' # a
          /\ Idle']_vars

\* The handshake and pty request performed on bridge b, in order.
ChainOps(b) ==
    LET l == SelectSeq(chanLog[b],
                       LAMBDA o : o.op \in {"handshake", "request_pty"})
    IN  [i \in 1..Len(l) |-> l[i].op]

\* C6: connected holds only with a bound transport whose attempt went through
\* transport connect, pty allocation and I/O-loop start, in that order, on its
\* own bridge; an attempt that failed at any step is never bound and never
\* about to be.
C6_ConnectedOnlyAfterChain ==
    /\ connected =>
          /\ ssh_client \in Attempts
          /\ attempt[ssh_client].steps = <<"connect", "pty", "io">>
          /\ attempt[ssh_client].result = "Ok"
          /\ ChainOps(ssh_client) = <<"handshake", "request_pty">>
          /\ iopc[ssh_client] # "idle"
    /\ \A a \in Attempts :
          attempt[a].result \in Failures => (ssh_client # a /\ ~Binding(a))

\* Connected through attempt 2 after attempt 1 failed at the pty step.
C6_Witness ==
    /\ connected /\ ssh_client = 2
    /\ attempt[1].result = "pty failed"
    /\ attempt[1].steps = <<"connect">>

\* The actor handles the Text or Binary frame in flight.
TextHandled ==
    /\ actor = "running"
    /\ inflight.kind \in {"Text", "Binary"}
    /\ inflight' = NoFrame

Emitted(type) ==
    /\ Len(wsOut') = Len(wsOut) + 1
    /\ SubSeq(wsOut', 1, Len(wsOut)) = wsOut
    /\ wsOut'[Len(wsOut')].type = type

\* The bridge can take a command: its sender is kept and its loop is running.
Live(b) == client[b].command_tx /\ ReceiverAlive(b)

CommandOf(t) == IF t.op = "write" THEN CmdWrite(t.data)
                ELSE CmdResize(t.width, t.height)

\* A spawned write or resize task, when it runs, puts exactly its command at
\* the end of its bridge's command queue if the bridge is live, and nothing
\* anywhere otherwise.
TasksEnqueue ==
    \A i \in 1..Len(spawned) :
        (spawned' = RemoveAt(spawned, i) /\ spawned[i].op \in {"write", "resize"}) =>
            LET t == spawned[i] IN
            enqueued' = IF Live(t.client)
                        THEN [enqueued EXCEPT ![t.client] = Append(@, CommandOf(t))]
                        ELSE enqueued

\* From the wording of the parsing policy: the text starts with '{' after
\* leading whitespace, and it deserializes.
StartsJson(t) == \E i \in 1..Len(t) :
                    /\ t[i] = LBrace
                    /\ \A j \in 1..(i - 1) : IsWhitespace(t[j])
IsControl(t) == StartsJson(t) /\ ParseClientMessage(trim(t)).ok

\* The bytes of a frame on the wire.
WireBytes(f) == IF f.kind = "Text" THEN as_bytes(f.body) ELSE f.body
WellFormed(bytes) == \E t \in SeqsUpTo(TextChars, MaxTextLen) : as_bytes(t) = bytes

\* C8: a connected session handling a non-empty text frame that is not a
\* control message spawns exactly one write of the frame's own bytes, neither
\* trimmed nor changed, and emits nothing; a binary frame is handled as the
\* text it decodes to, its own bytes when they are well-formed UTF-8. The
\* write, when run on a live bridge, enqueues exactly that one Write.
C8_RawTextForwardedVerbatim ==
    /\ [][(TextHandled /\ connected /\ FrameText(inflight) # <<>>
              /\ ~IsControl(FrameText(inflight))) =>
            /\ wsOut' = wsOut
            /\ spawned' = Append(spawned,
                  Task("write", ssh_client, as_bytes(FrameText(inflight)), 0, 0))
            /\ (inflight.kind = "Text" \/ WellFormed(inflight.body)) =>
                  spawned'[Len(spawned')].data = WireBytes(inflight)]_vars
    /\ [][TasksEnqueue]_vars

\* The Write of " {" followed by U+00E9, bytes 20 7B C3 A9, has been
\* enqueued on the bound bridge.
C8_Witness ==
    /\ connected
    /\ ssh_client # 0
    /\ \E i \in 1..Len(enqueued[ssh_client]) :
          enqueued[ssh_client][i] = CmdWrite(<<Space, LBrace, 195, 169>>)

\* C9: an input or resize handled while not connected emits exactly one error
\* frame, spawns nothing, enqueues nothing and leaves connected, the bound
\* transport, the attempts and the bridges as they were; handled while
\* connected it emits nothing and spawns one write of the data, or one resize
\* with the given dimensions, on the bound bridge, which enqueues that command
\* when run on a live bridge.
C9_InputAndResizeByState ==
    /\ [][(TextHandled /\ Dispatch(FrameText(inflight)).type \in {"input", "resize"}) =>
            LET m == Dispatch(FrameText(inflight)) IN
            IF ~connected
            THEN /\ Emitted("error")
                 /\ UNCHANGED <<connected, ssh_client, attempt, spawned,
                                client, cmdq, enqueued, iopc, chanLog>>
            ELSE /\ wsOut' = wsOut
                 /\ spawned' = Append(spawned,
                       IF m.type = "input"
                       THEN Task("write", ssh_client, as_bytes(m.data), 0, 0)
                       ELSE Task("resize", ssh_client, <<>>, m.width, m.height))
                 /\ UNCHANGED <<connected, ssh_client, attempt>>]_vars
    /\ [][TasksEnqueue]_vars

\* The input "a" sent to the connected session is the one command enqueued
\* on the bound bridge.
C9_Witness ==
    /\ connected
    /\ ssh_client # 0
    /\ enqueued[ssh_client] = <<CmdWrite(<<97>>)>>

InputInFlight ==
    /\ inflight.kind \in {"Text", "Binary"}
    /\ Dispatch(FrameText(inflight)).type = "input"

TornDown == stopCause = "timeout"

\* C10 as stated: an input sent to a session after the heartbeat timeout has
\* torn it down is answered with an error frame.
C10_InputAfterTimeoutGetsError ==
    (TornDown /\ InputInFlight /\ inflight.afterStop)
        ~> (wsOut # <<>> /\ wsOut[Len(wsOut)].type = "error")

\* C10 amended: once the heartbeat timeout has torn the session down the actor
\* is stopped for good: a frame in flight is never handled, no frame is
\* emitted, no task is spawned and no attempt is started.
C10_NothingHandledAfterTimeout ==
    [][TornDown =>
          /\ actor = "stopped" /\ actor' = "stopped"
          /\ wsOut' = wsOut
          /\ inflight # NoFrame => inflight' = inflight
          /\ Len(spawned') <= Len(spawned)
          /\ Started(attempt') = Started(attempt)]_vars

\* The input has been sent to a session the timeout tore down while
\* connected.
C10_Witness ==
    /\ TornDown
    /\ InputInFlight /\ inflight.afterStop
    /\ CountType(wsOut, "connected") = 1

\* ------------------------------------------------------ the output path
\* The payloads of the `output` frames of attempt a among frames.
OutputOf(frames, a) ==
    LET own == SelectSeq(frames, LAMBDA f : f.type = "output" /\ f.att = a)
    IN  [i \in 1..Len(own) |-> own[i].data]

\* The frames waiting in the actor's mailbox.
MailFrames ==
    LET ms == SelectSeq(mailbox, LAMBDA m : m.msg = "SendWsMessage")
    IN  [i \in 1..Len(ms) |-> ms[i].text]

\* What the forwarding task makes of each chunk.
Decoded(chunks) == [i \in 1..Len(chunks) |-> from_utf8_lossy(chunks[i])]

\* C11: while the session actor runs, the chunks the channel produced for an
\* attempt are, in the order read and each exactly once, the output frames
\* already sent to the client, then the output frames waiting in the
\* mailbox, then the chunks waiting in the output queue: nothing is
\* reordered, duplicated or dropped on the way.
C11_OutputInChannelOrder ==
    actor = "running" =>
        \A a \in Attempts :
            OutputOf(wsOut, a) \o OutputOf(MailFrames, a) \o Decoded(outq[a])
                = Decoded(produced[a])

\* Two different chunks of one attempt have reached the client.
C11_Witness ==
    /\ actor = "running"
    /\ \E a \in Attempts :
          /\ Len(OutputOf(wsOut, a)) = 2
          /\ OutputOf(wsOut, a)[1] # OutputOf(wsOut, a)[2]

\* ------------------------------------------------------ the end of the loop
\* The operations of a log made by the given thread.
OpsBy(log, by) == SelectSeq(log, LAMBDA o : o.by = by)

\* C12: the step in which the I/O loop dequeues Close ends the loop, and from
\* then on the loop applies no command and performs no channel write, resize
\* or read for that bridge.
C12_CloseEndsLoop ==
    [][\A b \in Bridges :
          /\ exitCause'[b] = "close" => iopc'[b] = "done"
          /\ exitCause[b] = "close" =>
                /\ exitCause'[b] = "close"
                /\ dequeued'[b] = dequeued[b]
                /\ pending_write'[b] = pending_write[b]
                /\ produced'[b] = produced[b]
                /\ OpsBy(chanLog'[b], "worker") = OpsBy(chanLog[b], "worker")]_vars

\* The loop ended on a Close that followed other commands, with output of
\* the remote still unread, and the caller has called the bridge since.
C12_Witness ==
    \E b \in Bridges :
        /\ exitCause[b] = "close"
        /\ Len(enqueued[b]) >= 2
        /\ Len(Received(b)) < MaxOut
        /\ closeCalls[b] >= 2

\* C13: whenever the I/O loop has ended, on whichever path, its worker has
\* called close on the channel before it returned.
C13_ChannelClosedOnEveryExit ==
    \A b \in Bridges :
        iopc[b] = "done" =>
            \E i \in 1..Len(chanLog[b]) :
                chanLog[b][i].op = "close" /\ chanLog[b][i].by = "worker"

\* ------------------------------------------------------- the session's end
\* C14: once the session has been torn down (a `disconnected` frame has been
\* sent), no step starts a connect attempt and none sets connected: a later
\* `connect` on the same session establishes nothing.
C14_ClosedIsFinal ==
    [][CountType(wsOut, "disconnected") > 0 =>
          /\ Started(attempt') = Started(attempt)
          /\ connected' => connected]_vars

\* The bridges of the session whose I/O loop runs and has not been sent Close.
OpenBridges ==
    {b \in Bridges : ReceiverAlive(b) /\ SelectCmds(enqueued[b], "Close") = <<>>}

\* C15: at most one bridge of the session is open at a time, and binding a
\* bridge to the session never replaces another bridge that is still open.
C15_AtMostOneTransport ==
    /\ Cardinality(OpenBridges) <= 1
    /\ (/\ mailbox # <<>>
        /\ Head(mailbox).msg = "SetSshClient"
        /\ ssh_client \notin {0, Head(mailbox).client})
       => ssh_client \notin OpenBridges

\* ------------------------------------------------- who touches the channel
\* C16: while the I/O loop of a bridge runs, no caller of the bridge's methods
\* makes an operation on its channel or its ssh session, and a loop that has
\* ended is never started again.
C16_OnlyWorkerTouchesChannel ==
    [][\A b \in Bridges :
          /\ ReceiverAlive(b) =>
                OpsBy(chanLog'[b], "caller") = OpsBy(chanLog[b], "caller")
          /\ iopc[b] = "done" => iopc'[b] = "done"]_vars

\* ------------------------------------------------------- the output bytes
\* The bytes of the payloads of the `output` frames sent for attempt a.
PayloadBytes(a) == as_bytes(Flatten(OutputOf(wsOut, a)))

\* C17: the payloads of the `output` frames sent to the client, concatenated,
\* are byte for byte the bytes read from the channel (up to the chunks still
\* on their way), however the reads split them into chunks.
C17_OutputBytesAreChannelBytes ==
    \A a \in Attempts : IsPrefix(PayloadBytes(a), Received(a))

\* --------------------------------------------------- the order of commands
\* The channel operations of bridge b's worker with which the effect of a
\* command begins: the write of the first byte of a payload (bytes are
\* stamped 16 * call + position), a pty resize, and the close made for Close.
EffectOps(b) ==
    SelectSeq(chanLog[b], LAMBDA o :
        /\ o.by = "worker"
        /\ \/ o.op = "resize"
           \/ o.op = "write" /\ o.a % 16 = 1
           \/ o.op = "close" /\ exitCause[b] = "close")

\* The commands whose effect has begun, in the order it began.
Effects(b) ==
    [i \in 1..Len(EffectOps(b)) |->
        LET o == EffectOps(b)[i] IN
        CASE o.op = "write" -> [cmd |-> "Write", a |-> o.a, b |-> 0]
          [] o.op = "resize" -> [cmd |-> "Resize", a |-> o.a, b |-> o.b]
          [] o.op = "close" -> [cmd |-> "Close", a |-> 0, b |-> 0]]

\* The commands enqueued on bridge b that have an effect on the channel (a
\* Write of no bytes has none), in enqueue order.
Expected(b) ==
    LET cs == SelectSeq(enqueued[b], LAMBDA c : c.cmd # "Write" \/ c.data # <<>>)
    IN  [i \in 1..Len(cs) |->
            CASE cs[i].cmd = "Write" -> [cmd |-> "Write", a |-> cs[i].data[1], b |-> 0]
              [] cs[i].cmd = "Resize" ->
                    [cmd |-> "Resize", a |-> cs[i].width, b |-> cs[i].height]
              [] cs[i].cmd = "Close" -> [cmd |-> "Close", a |-> 0, b |-> 0]]

\* C18: the effects of the commands of a bridge begin in the order the
\* commands were enqueued: at every moment the commands whose effect has
\* begun are the first ones enqueued, in enqueue order, and the commands
\* still queued are the last ones enqueued.
C18_EffectsInEnqueueOrder ==
    \A b \in Bridges :
        /\ IsPrefix(Effects(b), Expected(b))
        /\ ReceiverAlive(b) =>
              cmdq[b] = SubSeq(enqueued[b], Len(enqueued[b]) - Len(cmdq[b]) + 1,
                               Len(enqueued[b]))

\* A Write, a Resize and a Close were enqueued, and the effects of all three
\* have begun.
C18_Witness ==
    \E b \in Bridges :
        /\ Len(Effects(b)) = 3
        /\ {Effects(b)[i].cmd : i \in 1..3} = {"Write", "Resize", "Close"}

\* The number of commands of bridge b the loop has taken from the queue.
Taken(b) == Len(enqueued[b]) - Len(cmdq[b])

\* The step flushes the last bytes of a write of bridge b that had been left
\* partially flushed.
DrainsPartial(b) ==
    /\ pending_write[b].some
    /\ pending_write[b].mark > 0
    /\ ~pending_write'[b].some
    /\ iopc'[b] = "read"

\* C19: a Resize enqueued while a write is partially flushed is applied to
\* the channel before the rest of that write has drained: when the write's
\* last bytes are flushed, the Resize enqueued first after the write became
\* partial has already been taken from the queue and applied.
C19_ResizeOvertakesPartialWrite ==
    [][\A b \in Bridges :
          (/\ DrainsPartial(b)
           /\ Len(enqueued[b]) > pending_write[b].mark
           /\ enqueued[b][pending_write[b].mark + 1].cmd = "Resize")
          => /\ Taken(b) > pending_write[b].mark
             /\ Len(SelectOps(chanLog[b], "resize")) > 0]_vars

\* ------------------------------------------------------- a blocked write
\* C20: when an attempt to write the pending buffer returns would-block, the
\* loop keeps the buffer and its offset and goes on, in the same iteration,
\* to read from the channel.
C20_BlockedWriteStillReads ==
    [][\A b \in Bridges :
          (/\ pending_write[b].some
           /\ ~pending_write[b].blocked
           /\ pending_write'[b].blocked)
          => /\ pending_write'[b].data = pending_write[b].data
             /\ pending_write'[b].offset = pending_write[b].offset
             /\ iopc'[b] = "read"]_vars

\* ------------------------------------------------------ the pending write
\* The bytes of the pending write of bridge b not yet accepted.
Rest(pw) == SubSeq(pw.data, pw.offset + 1, Len(pw.data))

\* C21: a stored pending write has its offset below the buffer's length (or
\* an empty buffer); in a step that leaves the loop running while a write is
\* pending, no command is taken from the queue, the buffer is kept, the
\* offset advances by exactly the bytes the channel accepted in that step,
\* and the pending write is cleared only when all the bytes left of the
\* buffer have been accepted (at once when the buffer is empty).
C21_PendingWriteFlushedWhole ==
    [][\A b \in Bridges :
          /\ pending_write'[b].some =>
                \/ pending_write'[b].offset < Len(pending_write'[b].data)
                \/ pending_write'[b].data = <<>> /\ iopc'[b] = "write"
          /\ (pending_write[b].some /\ iopc'[b] # "done") =>
                /\ Len(enqueued'[b]) - Len(cmdq'[b]) = Taken(b)
                /\ dequeued'[b] = dequeued[b]
                /\ SelectOps(chanLog'[b], "resize") = SelectOps(chanLog[b], "resize")
                /\ IF pending_write'[b].some
                   THEN /\ pending_write'[b].data = pending_write[b].data
                        /\ pending_write'[b].offset >= pending_write[b].offset
                        /\ Wire(b)' = Wire(b) \o
                              SubSeq(pending_write[b].data,
                                     pending_write[b].offset + 1,
                                     pending_write'[b].offset)
                   ELSE Wire(b)' = Wire(b) \o Rest(pending_write[b])]_vars

\* A write of two bytes is pending with one byte accepted, and a command
\* enqueued since is waiting in the queue.
C21_Witness ==
    \E b \in Bridges :
        /\ pending_write[b].some
        /\ Len(pending_write[b].data) = 2
        /\ pending_write[b].offset = 1
        /\ cmdq[b] # <<>>

\* ------------------------------------------------------- the end of a bridge
\* Close has been enqueued on bridge b.
CloseSent(b) == SelectCmds(enqueued[b], "Close") # <<>>

\* C22: once close() has enqueued Close on a bridge, the bridge's I/O loop
\* eventually ends, whatever the channel's calls return.
C22_CloseEventuallyEndsLoop ==
    \A b \in Bridges : CloseSent(b) ~> (iopc[b] = "done")

\* ---------------------------------------------- the order of what is sent
\* C23: the commands of a session reach a bridge's command queue in the order
\* their frames were handled: a step that enqueues a command on a bridge is
\* the run of the oldest task spawned for that bridge and not yet run,
\* whichever way the spawned tasks are scheduled.
C23_SendsInHandlingOrder ==
    [][\A b \in Bridges :
          Len(enqueued'[b]) > Len(enqueued[b]) =>
              \E i \in 1..Len(spawned) :
                  /\ spawned' = RemoveAt(spawned, i)
                  /\ spawned[i].client = b
                  /\ \A j \in 1..(i - 1) : spawned[j].client # b]_vars

\* ------------------------------------------- an attempt that outlives its session
\* Bridge b has a running I/O loop, has not been sent Close, and nothing is
\* left that could send it one: it is not bound, no SetSshClient of a running
\* actor is about to bind it and no close task is waiting for it.
Orphan(b) ==
    /\ ReceiverAlive(b)
    /\ ~CloseSent(b)
    /\ ssh_client # b
    /\ ~(actor = "running" /\ Binding(b))
    /\ \A i \in 1..Len(spawned) : spawned[i].client # b

\* C24: in a session whose one connect attempt was started before the session
\* was torn down, the session is never Connected once it has been torn down
\* (a `disconnected` frame has been sent), and the teardown leaves no bridge
\* with a running I/O loop that will never be sent Close.
C24_TornDownAttemptNeverBinds ==
    CountType(wsOut, "disconnected") > 0 =>
        /\ ~connected
        /\ \A b \in Bridges : ~Orphan(b)

\* --------------------------------------------------- frames after teardown
\* C25: once the `disconnected` frame of a connection has been sent (it
\* follows the connection's `connected` frame), no `output` frame and no
\* `connected` frame of that connection is sent to the client.
C25_NothingAfterDisconnected ==
    \A i \in 1..Len(wsOut) : \A j \in (i + 1)..Len(wsOut) :
        \A k \in (j + 1)..Len(wsOut) :
            (wsOut[i].type = "connected" /\ wsOut[j].type = "disconnected") =>
                ~(wsOut[k].type \in {"output", "connected"}
                     /\ wsOut[k].att = wsOut[i].att)

\* ------------------------------------------------------- an input's fate
\* The step tells the client of an error: an `error` frame is sent, or queued
\* in the actor's mailbox.
ErrorNoticed ==
    \/ Emitted("error")
    \/ /\ Len(mailbox') = Len(mailbox) + 1
       /\ mailbox'[Len(mailbox')].msg = "SendWsMessage"
       /\ mailbox'[Len(mailbox')].text.type = "error"

\* C26: when the write spawned for an input accepted by a Connected session
\* is performed, either its bytes are enqueued as a Write on the bridge, whose
\* I/O loop is running, or the client is told of an error.
C26_InputEnqueuedOrReported ==
    [][\A i \in 1..Len(spawned) :
          (spawned' = RemoveAt(spawned, i) /\ spawned[i].op = "write") =>
              LET t == spawned[i] IN
              \/ /\ ReceiverAlive(t.client)
                 /\ enqueued'[t.client] = Append(enqueued[t.client], CmdWrite(t.data))
              \/ ErrorNoticed]_vars

\* ------------------------------------------------- connected and the handle
\* The actor handles a SetSshClient message in this step.
SetSshClientHandled ==
    /\ mailbox # <<>>
    /\ Head(mailbox).msg = "SetSshClient"
    /\ mailbox' = Tail(mailbox)

\* C27: connected is true exactly when a transport handle is bound, and only
\* the handling of SetSshClient (which sets both) and disconnect_ssh (which
\* clears both and sends `disconnected`) change either of them.
C27_ConnectedIffBound ==
    [][/\ connected' <=> ssh_client' # 0
       /\ (connected' # connected \/ ssh_client' # ssh_client) =>
             \/ SetSshClientHandled /\ connected' /\ ssh_client' # 0
             \/ /\ CountType(wsOut', "disconnected") > CountType(wsOut, "disconnected")
                /\ ~connected' /\ ssh_client' = 0]_vars

\* A session that was Connected with its transport bound has been
\* disconnected: the flag and the handle are both cleared.
C27_Witness ==
    /\ CountType(wsOut, "connected") = 1
    /\ wsOut[Len(wsOut)].type = "disconnected"
    /\ ~connected
    /\ ssh_client = 0
    /\ \E i \in 1..Len(spawned) : spawned[i].op = "close"

\* ---------------------------------------------- the two transport variants
\* A call through AnyPtyClient that holds the client mutex and waits for the
\* channel mutex while the I/O task, which keeps it until its loop ends,
\* holds it.
WaitsForLoop(i) ==
    /\ russh.calls[i].pc = "channel"
    /\ russh.client_mutex = i
    /\ russh.channel_mutex = "loop"
    /\ russh.task = "select"

\* A call that has not got the client mutex because a call waiting for the
\* loop to end holds it.
BehindWaiter(j) ==
    /\ russh.calls[j].pc = "lock"
    /\ \E i \in 1..Len(russh.calls) : WaitsForLoop(i)

\* C28: on a Russh client shared as AnyPtyClient::Russh, a resize_pty or
\* close called while the I/O loop is running never has to wait for the loop
\* to end, and no write_to_pty on the same handle is kept waiting behind such
\* a call.
C28_RusshCallsNeverWaitForLoop ==
    \A i \in 1..Len(russh.calls) :
        /\ russh.calls[i].op \in {"resize", "close"} => ~WaitsForLoop(i)
        /\ russh.calls[i].op = "write" => ~BehindWaiter(i)

\* --------------------------------------------- calls on a bridge not running
\* The step is a call of write_to_pty or resize_pty on bridge b.
WriteOrResizeCalled ==
    /\ apiBudget' = apiBudget - 1
    /\ lastCall'.op \in {"write_to_pty", "resize_pty"}

\* C29: write_to_pty and resize_pty called before start_pty_io has succeeded
\* or after close() has been called return an error and enqueue nothing;
\* called after the I/O loop has ended they return an error; in each case the
\* bridge is left as it was.
C29_NotRunningCallsFail ==
    [][ WriteOrResizeCalled
        /\ (iopc[1] \in {"idle", "done"} \/ closeCalls[1] > 0)
        => /\ lastCall'.ret # "Ok"
           /\ enqueued' = enqueued
           /\ UNCHANGED bridgeVars ]_vars

\* ------------------------------------------------------- connection ids
\* The connections still in the service's list.
OpenConns == { service.clients[i] : i \in 1..Len(service.clients) }

\* C30: a connection whose id has not been passed to close_connection is
\* what get_client returns for that id, and no two open connections were
\* given the same id.
C30_IdsAreStable ==
    /\ \A c \in 1..Len(service.issued) :
          ~service.issued[c].released
          => LET r == get_client(service, service.issued[c].id)
             IN  r.ok /\ r.conn = c
    /\ \A c, d \in OpenConns :
          c # d => service.issued[c].id # service.issued[d].id

=============================================================================
